---- MODULE Spec2Model ----
(***************************************************************************)
(* Model of mls_mpm::Simulation2D (src/mls_mpm/src/lib.rs): construction   *)
(* with new() and the time step step(), split at its loop boundaries.      *)
(*                                                                         *)
(* Numbers.  An f32 is modelled by the real number it denotes, held as a   *)
(* reduced fraction <<n, d>> with d > 0.  Arithmetic is exact: rounding,   *)
(* overflow to infinity and NaN are outside the model.  Integer index      *)
(* arithmetic (i32 / u32 / usize) is modelled as the code performs it.     *)
(***************************************************************************)
EXTENDS Integers, Sequences, FiniteSets, TLC

(***************************************************************************)
(* Bounds of the exploration.                                              *)
(***************************************************************************)
\* step() is called at most MaxSteps times on one Simulation2D.
MaxSteps == 3
\* step() is only called while every particle coordinate is a fraction
\* whose denominator is at most MaxDen (keeps the exact fractions small).
MaxDen == 4

(***************************************************************************)
(* Exact fractions standing for f32 values.                                *)
(***************************************************************************)
Abs(n) == IF n < 0 THEN -n ELSE n

RECURSIVE GCD(_, _)
GCD(a, b) == IF b = 0 THEN a ELSE GCD(b, a % b)

\* the reduced fraction n/d, d > 0
Rat(n, d) == LET g == GCD(Abs(n), d) IN <<n \div g, d \div g>>

Whole(n) == <<n, 1>>

Add(a, b) ==
    LET g == GCD(a[2], b[2])
    IN  Rat(a[1] * (b[2] \div g) + b[1] * (a[2] \div g), a[2] * (b[2] \div g))

Neg(a) == <<-a[1], a[2]>>

Sub(a, b) == Add(a, Neg(b))

Mul(a, b) ==
    LET g1 == GCD(Abs(a[1]), b[2])
        g2 == GCD(Abs(b[1]), a[2])
    IN  IF a[1] = 0 \/ b[1] = 0 THEN <<0, 1>>
        ELSE <<(a[1] \div g1) * (b[1] \div g2), (a[2] \div g2) * (b[2] \div g1)>>

\* a / b for b # 0
Div(a, b) ==
    IF b[1] > 0 THEN Mul(a, <<b[2], b[1]>>) ELSE Mul(a, <<-b[2], -b[1]>>)

Lt(a, b) == a[1] * b[2] < b[1] * a[2]

Le(a, b) == a[1] * b[2] <= b[1] * a[2]

\* f32::floor
Floor(a) == <<a[1] \div a[2], 1>>

\* `as i32` of an f32: truncation toward zero
AsI32(a) == IF a[1] >= 0 THEN a[1] \div a[2] ELSE -((-a[1]) \div a[2])

\* f32::clamp(self, min, max), used with min <= max only (grids of size >= 3)
Clamp(a, lo, hi) == IF Lt(a, lo) THEN lo ELSE IF Lt(hi, a) THEN hi ELSE a

(***************************************************************************)
(* glam Vec2 = <<x, y>> and Mat2 = <<x_axis, y_axis>> (column major).      *)
(***************************************************************************)
Zero == <<0, 1>>

Vec2Zero == <<Zero, Zero>>

Mat2Zero == <<Vec2Zero, Vec2Zero>>

VAdd(u, v) == <<Add(u[1], v[1]), Add(u[2], v[2])>>

VSub(u, v) == <<Sub(u[1], v[1]), Sub(u[2], v[2])>>

\* Vec2 * f32
VScale(u, s) == <<Mul(u[1], s), Mul(u[2], s)>>

\* Vec2 / f32
VDiv(u, s) == <<Div(u[1], s), Div(u[2], s)>>

\* Vec2::powf(2.0)
VSquare(u) == <<Mul(u[1], u[1]), Mul(u[2], u[2])>>

VFloor(u) == <<Floor(u[1]), Floor(u[2])>>

\* Mat2 * Vec2
MatVec(m, v) == VAdd(VScale(m[1], v[1]), VScale(m[2], v[2]))

\* Mat2::add_mat2
MatAdd(m, n) == <<VAdd(m[1], n[1]), VAdd(m[2], n[2])>>

\* Mat2 * f32
MatScale(m, s) == <<VScale(m[1], s), VScale(m[2], s)>>

(***************************************************************************)
(* Constants written in step().                                            *)
(***************************************************************************)
\* let half = Vec2::new(0.5, 0.5)
half == <<Rat(1, 2), Rat(1, 2)>>

\* let tq = Vec2::new(0.75, 0.75)
tq == <<Rat(3, 4), Rat(3, 4)>>

\* the factor 0.5f32 of the outer weights
HalfF32 == Rat(1, 2)

\* particle.momentum = b * 4.0
MomentumScale == Whole(4)

\* for (x_offset, ..) in (-1i32..=1), for (y_offset, ..) in (-1i32..=1)
Offsets == <<-1, 0, 1>>

\* the 9 iterations of the nested stencil loops, in execution order
Stencil == 1..9

XSlot(k) == ((k - 1) \div 3) + 1

YSlot(k) == ((k - 1) % 3) + 1

(***************************************************************************)
(* Per-particle quantities, computed alike in P2G and G2P.                 *)
(***************************************************************************)
\* let cell_diff = particle.position - particle.position.floor() - half
CellDiff(position) == VSub(VSub(position, VFloor(position)), half)

\* Weights with the centre weight written as 0.5 - cell_diff^2
WeightsLowCentre(position) ==
    LET cell_diff == CellDiff(position)
    IN  << VScale(VSquare(VSub(half, cell_diff)), HalfF32),
           VSub(half, VSquare(cell_diff)),
           VScale(VSquare(VAdd(half, cell_diff)), HalfF32) >>

\* let weights: [Vec2; 3]
Weights(position) ==
    LET cell_diff == CellDiff(position)
    IN  << VScale(VSquare(VSub(half, cell_diff)), HalfF32),
           VSub(tq, VSquare(cell_diff)),
           VScale(VSquare(VAdd(half, cell_diff)), HalfF32) >>

\* x_weight.x * y_weight.y of stencil iteration k
Weight(position, k) ==
    LET weights == Weights(position)
    IN  Mul(weights[XSlot(k)][1], weights[YSlot(k)][2])

\* let cell_index = particle.position.as_i32()
CellIndex(position) == <<AsI32(position[1]), AsI32(position[2])>>

\* cell_index + IVec2::new(x_offset, y_offset), before the cast as_u32()
CellPosition(position, k) ==
    LET cell_index == CellIndex(position)
    IN  <<cell_index[1] + Offsets[XSlot(k)], cell_index[2] + Offsets[YSlot(k)]>>

\* Index value standing for "at least 2^32 - 2": what a negative i32
\* coordinate becomes through as_u32() and `as usize`.
Wrapped == -1

\* cell_position.y as usize * self.x_size + cell_position.x as usize
FlatIndex(cell_position, xs) ==
    IF cell_position[1] < 0 \/ cell_position[2] < 0
    THEN Wrapped
    ELSE cell_position[2] * xs + cell_position[1]

\* the bounds check of Vec indexing, grid[..]
InBounds(index, nc) == index >= 0 /\ index < nc

\* every grid[..] access of this particle's stencil loop passes the check
StencilInBounds(position, xs, nc) ==
    \A k \in Stencil : InBounds(FlatIndex(CellPosition(position, k), xs), nc)

\* let cell_dist = cell_position.as_f32() - particle.position + half
CellDist(position, k) ==
    LET cp == CellPosition(position, k)
    IN  VAdd(VSub(<<Whole(cp[1]), Whole(cp[2])>>, position), half)

(***************************************************************************)
(* Cell and the grid: a flat row-major array 0 .. num_cells - 1.           *)
(***************************************************************************)
\* Cell::zero()
CellZero == [velocity |-> Vec2Zero, mass |-> Zero]

\* vec![Cell::zero(); self.num_cells]
EmptyGrid(nc) == [j \in 0..(nc - 1) |-> CellZero]

\* the grid does not exist outside a call of step()
NoGrid == <<>>

(***************************************************************************)
(* Phase A: one iteration of the inner P2G loop body, then the 9 of them.  *)
(***************************************************************************)
P2GCell(g, particle, k, xs) ==
    LET index        == FlatIndex(CellPosition(particle.position, k), xs)
        q            == MatVec(particle.momentum, CellDist(particle.position, k))
        mass_contrib == Mul(Weight(particle.position, k), particle.mass)
    IN  [g EXCEPT ![index] =
            [mass     |-> Add(@.mass, mass_contrib),
             velocity |-> VAdd(@.velocity,
                               VScale(VAdd(particle.velocity, q), mass_contrib))]]

RECURSIVE ScatterFrom(_, _, _, _)
ScatterFrom(g, particle, k, xs) ==
    IF k > 9 THEN g
    ELSE ScatterFrom(P2GCell(g, particle, k, xs), particle, k + 1, xs)

Scatter(g, particle, xs) == ScatterFrom(g, particle, 1, xs)

(***************************************************************************)
(* Phase B: the body of the loop over the cells with mass > 0.  Every grid  *)
(* explored has x_size >= 3 and y_size >= 3, so the usize subtractions     *)
(* x_size - 3 and y_size - 3 do not wrap.                                  *)
(***************************************************************************)
\* ResolveCell with gravity added before the division by the mass
ResolveCellGravityFirst(j, cell, xs, ys, gdt) ==
    LET v == VDiv(VAdd(cell.velocity, gdt), cell.mass)
        x == j % xs
        y == j \div xs
    IN  [mass     |-> cell.mass,
         velocity |-> << IF x < 2 \/ x > xs - 3 THEN Zero ELSE v[1],
                         IF y < 2 \/ y > ys - 3 THEN Zero ELSE v[2] >>]

\* ResolveCell with an upper margin of one cell: x > x_size - 2, y > y_size - 2
ResolveCellThinMargin(j, cell, xs, ys, gdt) ==
    LET v == VAdd(VDiv(cell.velocity, cell.mass), gdt)
        x == j % xs
        y == j \div xs
    IN  [mass     |-> cell.mass,
         velocity |-> << IF x < 2 \/ x > xs - 2 THEN Zero ELSE v[1],
                         IF y < 2 \/ y > ys - 2 THEN Zero ELSE v[2] >>]

ResolveCell(j, cell, xs, ys, gdt) ==
    LET v == VAdd(VDiv(cell.velocity, cell.mass), gdt)
        x == j % xs
        y == j \div xs
    IN  [mass     |-> cell.mass,
         velocity |-> << IF x < 2 \/ x > xs - 3 THEN Zero ELSE v[1],
                         IF y < 2 \/ y > ys - 3 THEN Zero ELSE v[2] >>]

\* grid.iter_mut().enumerate().filter(|(_, cell)| cell.mass > 0.0)
ResolveGrid(g, xs, ys, gdt) ==
    [j \in DOMAIN g |->
        IF Lt(Zero, g[j].mass) THEN ResolveCell(j, g[j], xs, ys, gdt) ELSE g[j]]

(***************************************************************************)
(* Phase C: one particle.  acc = [velocity, b] after the stencil loop.     *)
(***************************************************************************)
G2PCell(g, particle, k, xs, acc) ==
    LET weight            == Weight(particle.position, k)
        index             == FlatIndex(CellPosition(particle.position, k), xs)
        cell_dist         == CellDist(particle.position, k)
        weighted_velocity == VScale(g[index].velocity, weight)
        term              == << VScale(weighted_velocity, cell_dist[1]),
                                VScale(weighted_velocity, cell_dist[2]) >>
    IN  [b        |-> MatAdd(acc.b, term),
         velocity |-> VAdd(acc.velocity, weighted_velocity)]

\* the stencil iterations k .. last of the G2P loops
RECURSIVE GatherFrom(_, _, _, _, _, _)
GatherFrom(g, particle, k, last, xs, acc) ==
    IF k > last THEN acc
    ELSE GatherFrom(g, particle, k + 1, last, xs, G2PCell(g, particle, k, xs, acc))

\* ClampPosition with the upper bounds x_size - 1 and y_size - 1
ClampPositionWide(position, xs, ys) ==
    << Clamp(position[1], Whole(1), Whole(xs - 1)),
       Clamp(position[2], Whole(1), Whole(ys - 1)) >>

\* ClampPosition with the lower bound 0
ClampPositionFromZero(position, xs, ys) ==
    << Clamp(position[1], Zero, Whole(xs - 2)),
       Clamp(position[2], Zero, Whole(ys - 2)) >>

\* the safety clamp of the advected position
ClampPosition(position, xs, ys) ==
    << Clamp(position[1], Whole(1), Whole(xs - 2)),
       Clamp(position[2], Whole(1), Whole(ys - 2)) >>

\* Gather with `particle.position = particle.velocity * self.dt`
GatherAssigningPosition(g, particle, xs, ys, delta_t) ==
    LET acc == GatherFrom(g, particle, 1, 9, xs,
                          [b |-> Mat2Zero, velocity |-> Vec2Zero])
    IN  [position |-> ClampPosition(VScale(acc.velocity, delta_t), xs, ys),
         velocity |-> acc.velocity,
         momentum |-> MatScale(acc.b, MomentumScale),
         mass     |-> particle.mass]

\* particle.velocity when the G2P stencil loop panics: the sum over the
\* iterations before the first one whose grid[..] access is out of bounds
GatherUntilPanic(g, particle, xs, nc) ==
    LET bad   == {k \in Stencil :
                    ~InBounds(FlatIndex(CellPosition(particle.position, k), xs), nc)}
        first == CHOOSE k \in bad : \A m \in bad : k <= m
    IN  GatherFrom(g, particle, 1, first - 1, xs,
                   [b |-> Mat2Zero, velocity |-> Vec2Zero]).velocity

\* the particle after the body of the G2P loop
Gather(g, particle, xs, ys, delta_t) ==
    LET acc == GatherFrom(g, particle, 1, 9, xs,
                          [b |-> Mat2Zero, velocity |-> Vec2Zero])
    IN  [position |-> ClampPosition(
                          VAdd(particle.position, VScale(acc.velocity, delta_t)),
                          xs, ys),
         velocity |-> acc.velocity,
         momentum |-> MatScale(acc.b, MomentumScale),
         mass     |-> particle.mass]

(***************************************************************************)
(* State.  The fields of Simulation2D, the local grid of step(), the       *)
(* position of the running call, and two records of past values that the   *)
(* properties refer to.                                                    *)
(***************************************************************************)
VARIABLES
    x_size, y_size, num_cells, particles, gravity_times_dt, dt, steps_run,
    grid,      \* the local `grid` of step(); NoGrid outside a call
    pc,        \* "idle", "p2g", "grid", "g2p" or "panicked"
    next,      \* index of the particle the running loop handles next
    entry,     \* steps_run and particles as they were when step() was entered
    supplied   \* the particles handed to new()

vars == <<x_size, y_size, num_cells, particles, gravity_times_dt, dt,
          steps_run, grid, pc, next, entry, supplied>>

config == <<x_size, y_size, num_cells, gravity_times_dt, dt, supplied>>

(***************************************************************************)
(* Arguments of new() that are explored.                                   *)
(***************************************************************************)
\* (x_size, y_size)
Dims == {<<6, 5>>, <<7, 7>>}

\* x coordinates: 1/2 lies left of the domain, 11/2 and 13/2 right of it
PosX == {Rat(1, 2), Whole(1), Rat(5, 2), Whole(3), Rat(7, 2), Rat(11, 2), Rat(13, 2)}

\* y coordinates: 9/2 lies above the domain of a grid of height 5
PosY == {Whole(1), Rat(5, 2), Whole(3), Rat(9, 2)}

Velocities == {Vec2Zero, <<Whole(40), Whole(-1)>>, <<Whole(-3), Whole(2)>>}

Shear == << <<Whole(1), Zero>>, <<Rat(1, 2), Whole(-1)>> >>

Momenta == {Mat2Zero, Shear}

Masses == {Whole(1), Whole(2)}

Particles ==
    [position : PosX \X PosY, velocity : Velocities, momentum : Momenta,
     mass : Masses]

\* particles that are combined into sequences of two
PairParticles ==
    {p \in Particles :
        /\ p.position \in {<<Rat(5, 2), Rat(5, 2)>>, <<Whole(3), Whole(3)>>}
        /\ p.velocity # <<Whole(40), Whole(-1)>>
        /\ (p.mass = Whole(2)) <=> (p.momentum = Shear)}

ParticleSeqs ==
    {<<>>} \cup {<<p>> : p \in Particles}
           \cup {<<p, q>> : p \in PairParticles, q \in PairParticles}

Gravities == {Vec2Zero, <<Whole(1), Zero>>, <<Zero, Whole(-8)>>}

TimeSteps == {Whole(1), Rat(1, 2)}

(***************************************************************************)
(* Simulation2D::new                                                       *)
(***************************************************************************)
New(xs, ys, ps, gravity, delta_t) ==
    /\ x_size = xs
    /\ y_size = ys
    /\ num_cells = xs * ys
    /\ particles = ps
    /\ gravity_times_dt = VScale(gravity, delta_t)
    /\ dt = delta_t
    /\ steps_run = 0
    /\ grid = NoGrid
    /\ pc = "idle"
    /\ next = 1
    /\ entry = [steps_run |-> 0, particles |-> ps]
    /\ supplied = ps

Init ==
    \E d \in Dims, ps \in ParticleSeqs, gravity \in Gravities, delta_t \in TimeSteps :
        New(d[1], d[2], ps, gravity, delta_t)

(***************************************************************************)
(* Simulation2D::step                                                      *)
(***************************************************************************)
\* the exploration bound MaxDen on the particle state a call starts from
SmallNum(a) == a[2] <= MaxDen

SmallVec(v) == SmallNum(v[1]) /\ SmallNum(v[2])

Representable(ps) ==
    \A n \in DOMAIN ps :
        /\ SmallVec(ps[n].position)
        /\ SmallVec(ps[n].velocity)
        /\ SmallVec(ps[n].momentum[1])
        /\ SmallVec(ps[n].momentum[2])

\* entry of step(): the counter, then the empty grid
StepBegin ==
    /\ pc = "idle"
    /\ steps_run < MaxSteps
    /\ Representable(particles)
    /\ steps_run' = steps_run + 1
    /\ grid' = EmptyGrid(num_cells)
    /\ pc' = IF Len(particles) = 0 THEN "grid" ELSE "p2g"
    /\ next' = 1
    /\ entry' = [steps_run |-> steps_run, particles |-> particles]
    /\ UNCHANGED <<config, particles>>

\* P2GParticle with `self.steps_run += 1` inside the particle loop
P2GParticleCounting ==
    /\ pc = "p2g"
    /\ StencilInBounds(particles[next].position, x_size, num_cells)
    /\ grid' = Scatter(grid, particles[next], x_size)
    /\ pc' = IF next = Len(particles) THEN "grid" ELSE "p2g"
    /\ next' = IF next = Len(particles) THEN 1 ELSE next + 1
    /\ steps_run' = steps_run + 1
    /\ UNCHANGED <<config, particles, entry>>

\* P2GParticle that resolves the cell velocities right after each scatter
P2GParticleResolving ==
    /\ pc = "p2g"
    /\ StencilInBounds(particles[next].position, x_size, num_cells)
    /\ grid' = ResolveGrid(Scatter(grid, particles[next], x_size),
                           x_size, y_size, gravity_times_dt)
    /\ pc' = IF next = Len(particles) THEN "grid" ELSE "p2g"
    /\ next' = IF next = Len(particles) THEN 1 ELSE next + 1
    /\ UNCHANGED <<config, particles, steps_run, entry>>

\* one iteration of `for particle in self.particles.iter()`
P2GParticle ==
    /\ pc = "p2g"
    /\ StencilInBounds(particles[next].position, x_size, num_cells)
    /\ grid' = Scatter(grid, particles[next], x_size)
    /\ pc' = IF next = Len(particles) THEN "grid" ELSE "p2g"
    /\ next' = IF next = Len(particles) THEN 1 ELSE next + 1
    /\ UNCHANGED <<config, particles, steps_run, entry>>

\* the same iteration when a grid[..] access fails its bounds check
P2GPanic ==
    /\ pc = "p2g"
    /\ ~StencilInBounds(particles[next].position, x_size, num_cells)
    /\ pc' = "panicked"
    /\ grid' = NoGrid
    /\ UNCHANGED <<config, particles, steps_run, next, entry>>

\* the loop over the cells with mass > 0
GridUpdate ==
    /\ pc = "grid"
    /\ IF Len(particles) = 0
       THEN pc' = "idle" /\ grid' = NoGrid
       ELSE pc' = "g2p" /\ grid' = ResolveGrid(grid, x_size, y_size, gravity_times_dt)
    /\ next' = 1
    /\ UNCHANGED <<config, particles, steps_run, entry>>

\* one iteration of `for particle in self.particles.iter_mut()`
G2PParticle ==
    /\ pc = "g2p"
    /\ IF StencilInBounds(particles[next].position, x_size, num_cells)
       THEN /\ particles' =
                 [particles EXCEPT ![next] = Gather(grid, @, x_size, y_size, dt)]
            /\ IF next = Len(particles)
               THEN pc' = "idle" /\ grid' = NoGrid /\ next' = 1
               ELSE pc' = "g2p" /\ grid' = grid /\ next' = next + 1
       ELSE /\ particles' = [particles EXCEPT ![next].velocity =
                                 GatherUntilPanic(grid, particles[next], x_size, num_cells)]
            /\ pc' = "panicked"
            /\ grid' = NoGrid
            /\ next' = next
    /\ UNCHANGED <<config, steps_run, entry>>

Next == StepBegin \/ P2GParticle \/ P2GPanic \/ GridUpdate \/ G2PParticle

Spec == Init /\ [][Next]_vars

(***************************************************************************)
(* Vocabulary of the properties.                                           *)
(***************************************************************************)
\* 1 <= position.x <= x_size - 2 and 1 <= position.y <= y_size - 2
InDomainPos(position) ==
    /\ Le(Whole(1), position[1]) /\ Le(position[1], Whole(x_size - 2))
    /\ Le(Whole(1), position[2]) /\ Le(position[2], Whole(y_size - 2))

InDomain(ps) == \A n \in DOMAIN ps : InDomainPos(ps[n].position)

\* step() has been called and has returned
Returned == pc = "idle" /\ steps_run > 0

\* the (x, y) cell of stencil iteration k lies in the grid and the flat
\* index denotes it
CellInGrid(position, k) ==
    LET cp    == CellPosition(position, k)
        index == FlatIndex(cp, x_size)
    IN  /\ 0 <= cp[1] /\ cp[1] <= x_size - 1
        /\ 0 <= cp[2] /\ cp[2] <= y_size - 1
        /\ index < x_size * y_size
        /\ index % x_size = cp[1]
        /\ index \div x_size = cp[2]

StencilInGrid(position) == \A k \in Stencil : CellInGrid(position, k)

\* C1: after every completed call of step() every particle position lies in
\* [1, x_size - 2] x [1, y_size - 2], whatever velocity, momentum and gravity.
PositionsStayInDomain == Returned => InDomain(particles)

\* a particle was advected beyond the right wall and sits on the clamp bound
\* after at least two calls
ClampedAtWall ==
    /\ Returned
    /\ steps_run >= 2
    /\ \E n \in DOMAIN particles :
          /\ particles[n].position[1] = Whole(x_size - 2)
          /\ Lt(Whole(x_size - 2),
                Add(entry.particles[n].position[1],
                    Mul(particles[n].velocity[1], dt)))

\* C2: from in-domain initial positions on a grid of at least 5 x 5, every
\* stencil cell of P2G and G2P lies in the grid, its flat index denotes it,
\* and no call of step() panics.
StencilStaysInGrid ==
    (x_size >= 5 /\ y_size >= 5 /\ InDomain(supplied)) =>
        /\ pc # "panicked"
        /\ pc \in {"p2g", "g2p"} => StencilInGrid(particles[next].position)

\* G2P of a later call handles a particle whose stencil reaches the last
\* column of the grid
StencilAtLastColumn ==
    /\ pc = "g2p"
    /\ steps_run >= 2
    /\ InDomain(supplied)
    /\ CellPosition(particles[next].position, 9)[1] = x_size - 1

\* sum of cell.mass over the cells x .. xs - 1 of row y, added to acc
RECURSIVE SumRowMass(_, _, _, _, _)
SumRowMass(g, xs, y, x, acc) ==
    IF x = xs THEN acc
    ELSE SumRowMass(g, xs, y, x + 1, Add(acc, g[y * xs + x].mass))

\* sum of cell.mass over the rows y .. ys - 1, added to acc
RECURSIVE SumRows(_, _, _, _, _)
SumRows(g, xs, ys, y, acc) ==
    IF y = ys THEN acc
    ELSE SumRows(g, xs, ys, y + 1, Add(acc, SumRowMass(g, xs, y, 0, Zero)))

\* sum of cell.mass over the cells of the grid
SumCellMass(g) == SumRows(g, x_size, y_size, 0, Zero)

\* sum of particle.mass over the particles
SumParticleMass(ps) ==
    LET upto[n \in 0..Len(ps)] ==
            IF n = 0 THEN Zero ELSE Add(upto[n - 1], ps[n].mass)
    IN  upto[Len(ps)]

WeightsSumToOne(position) ==
    LET weights == Weights(position)
    IN  VAdd(VAdd(weights[1], weights[2]), weights[3]) = <<Whole(1), Whole(1)>>

\* C3: when the P2G scatter has completed, the per-axis weights of every
\* particle sum to 1 and the cell masses sum to the particle masses.
MassConservedByP2G ==
    pc = "grid" =>
        /\ \A n \in DOMAIN particles : WeightsSumToOne(particles[n].position)
        /\ SumCellMass(grid) = SumParticleMass(particles)

\* two particles of different mass at different positions were scattered
TwoParticlesScattered ==
    /\ pc = "grid"
    /\ Len(particles) = 2
    /\ particles[1].position # particles[2].position
    /\ particles[1].mass # particles[2].mass

ZeroMotion(ps) ==
    \A n \in DOMAIN ps : ps[n].velocity = Vec2Zero /\ ps[n].momentum = Mat2Zero

FreeStencil(position) ==
    \A k \in Stencil :
        LET cp == CellPosition(position, k)
        IN  /\ 2 <= cp[1] /\ cp[1] <= x_size - 3
            /\ 2 <= cp[2] /\ cp[2] <= y_size - 3

\* a single particle of mass 1 constructed with zero velocity and momentum
FreeParticle ==
    /\ Len(supplied) = 1
    /\ supplied[1].mass = Whole(1)
    /\ supplied[1].velocity = Vec2Zero
    /\ supplied[1].momentum = Mat2Zero

\* where n steps of v += g*dt, position += v*dt take the particle
FreeFall(n) ==
    VAdd(supplied[1].position,
         VScale(VScale(gravity_times_dt, dt), Rat(n * (n + 1), 2)))

\* each of the first n steps found the stencil free of margin cells
FreeUntil(n) == \A m \in 0..(n - 1) : FreeStencil(FreeFall(m))

\* C5 as stated: after n free steps the velocity is n * g * dt, the momentum
\* is zero and the position has moved by the new velocity times dt each step.
FreeParticleFalls ==
    (Returned /\ FreeParticle /\ FreeUntil(steps_run)) =>
        /\ particles[1].velocity = VScale(gravity_times_dt, Whole(steps_run))
        /\ particles[1].momentum = Mat2Zero
        /\ particles[1].position = FreeFall(steps_run)

\* C5 amended: the same, the position of the last step being clamped to
\* [1, x_size - 2] x [1, y_size - 2].
FreeParticleFallsClamped ==
    (Returned /\ FreeParticle /\ FreeUntil(steps_run)) =>
        /\ particles[1].velocity = VScale(gravity_times_dt, Whole(steps_run))
        /\ particles[1].momentum = Mat2Zero
        /\ particles[1].position = ClampPosition(FreeFall(steps_run), x_size, y_size)

\* a free particle has fallen for two steps under gravity
FreeForTwoSteps ==
    /\ Returned
    /\ steps_run >= 2
    /\ FreeParticle
    /\ FreeUntil(steps_run)
    /\ gravity_times_dt # Vec2Zero

\* C6: steps_run is 0 after construction, a call of step() adds exactly 1
\* when it is entered, and nothing else changes it.
StepCounter ==
    /\ steps_run = 0
    /\ [][IF pc = "idle" /\ pc' # "idle"
          THEN steps_run' = steps_run + 1
          ELSE steps_run' = steps_run]_vars

\* the second call has returned
TwoCallsCounted == pc = "idle" /\ steps_run = 2 /\ entry.steps_run = 1

\* C7: a call entered with a particle whose stencil leaves the grid does not
\* get past its start: it never reaches the grid update or G2P and never
\* returns normally.
PreconditionViolationIsFatal ==
    (\E n \in DOMAIN entry.particles : ~StencilInGrid(entry.particles[n].position))
        => /\ pc \in {"idle", "p2g", "panicked"}
           /\ pc = "idle" => steps_run = entry.steps_run

\* the scatter of one particle alone
OwnGrid(particle) == Scatter(EmptyGrid(num_cells), particle, x_size)

\* cell by cell, the sum of two grids
AddGrids(g, h) ==
    [j \in DOMAIN g |->
        [mass     |-> Add(g[j].mass, h[j].mass),
         velocity |-> VAdd(g[j].velocity, h[j].velocity)]]

\* the sum of the scatters of the particles n .. Len(ps), last one first
RECURSIVE SumOfScatters(_, _)
SumOfScatters(ps, n) ==
    IF n > Len(ps) THEN EmptyGrid(num_cells)
    ELSE AddGrids(SumOfScatters(ps, n + 1), OwnGrid(ps[n]))

\* the resolved grid of the particle set ps
GridOf(ps) ==
    ResolveGrid(SumOfScatters(ps, 1), x_size, y_size, gravity_times_dt)

\* what a whole step makes of the particle set ps
StepOf(ps) == [n \in DOMAIN ps |-> Gather(GridOf(ps), ps[n], x_size, y_size, dt)]

\* C8: when a call of step() has ended, by returning or by panicking, either
\* none of its effects is visible or all of them are.
StepIsAtomic ==
    pc \in {"idle", "panicked"} =>
        \/ steps_run = entry.steps_run /\ particles = entry.particles
        \/ /\ pc = "idle"
           /\ steps_run = entry.steps_run + 1
           /\ particles = StepOf(entry.particles)

InMargin(c, size) == c < 2 \/ c > size - 3

\* C9: the grid update zeroes velocity.x in the two-cell x margin and
\* velocity.y in the two-cell y margin, sets the other components of a cell
\* with mass > 0 to momentum / mass + gravity_times_dt, and leaves a cell of
\* zero mass at zero velocity.
GridUpdateResolves ==
    [][(pc = "grid" /\ pc' = "g2p") =>
        \A j \in DOMAIN grid :
            LET x == j % x_size
                y == j \div x_size
                v == VAdd(VDiv(grid[j].velocity, grid[j].mass), gravity_times_dt)
            IN  /\ grid'[j].mass = grid[j].mass
                /\ InMargin(x, x_size) => grid'[j].velocity[1] = Zero
                /\ InMargin(y, y_size) => grid'[j].velocity[2] = Zero
                /\ grid[j].mass = Zero => grid'[j].velocity = Vec2Zero
                /\ (Lt(Zero, grid[j].mass) /\ ~InMargin(x, x_size))
                       => grid'[j].velocity[1] = v[1]
                /\ (Lt(Zero, grid[j].mass) /\ ~InMargin(y, y_size))
                       => grid'[j].velocity[2] = v[2]]_vars

\* under gravity the update has met a massive margin cell, a massive
\* interior cell that moves, and an empty cell
MarginCellResolved ==
    /\ pc = "g2p"
    /\ gravity_times_dt # Vec2Zero
    /\ \E j \in DOMAIN grid :
          Lt(Zero, grid[j].mass) /\ InMargin(j % x_size, x_size)
    /\ \E j \in DOMAIN grid :
          /\ Lt(Zero, grid[j].mass)
          /\ ~InMargin(j % x_size, x_size) /\ ~InMargin(j \div x_size, y_size)
          /\ grid[j].velocity # Vec2Zero
    /\ \E j \in DOMAIN grid : grid[j].mass = Zero

\* C10: the grid that is resolved is the sum of the scatters of all pre-step
\* particles, G2P reads that resolved grid unchanged, every particle gathers
\* with its pre-step position, and the result of the step is a function of
\* the pre-step particle set that does not depend on the processing order.
PhasesAreOrdered ==
    /\ pc = "grid" =>
          grid = SumOfScatters(entry.particles, 1)
    /\ pc = "g2p" =>
          /\ grid = GridOf(entry.particles)
          /\ \A n \in DOMAIN particles :
                particles[n] = IF n < next
                               THEN StepOf(entry.particles)[n]
                               ELSE entry.particles[n]
    /\ Returned => particles = StepOf(entry.particles)

\* a step has returned for two different particles with overlapping
\* stencils, both of which it moved
TwoParticlesStepped ==
    /\ Returned
    /\ Len(particles) = 2
    /\ entry.particles[1] # entry.particles[2]
    /\ particles[1].position # entry.particles[1].position
    /\ particles[2].position # entry.particles[2].position

====
